---- MODULE Spec2Model ----
(***************************************************************************)
(* Model of the BigInt class of BigInt.cpp: a non-negative integer kept as *)
(* a vector of decimal digits, least-significant digit first (vi).  A      *)
(* BigInt is a sequence of digits; vi[i] of the code is v[i+1] here.       *)
(***************************************************************************)
EXTENDS Integers, Sequences, FiniteSets, TLC

\* ---- bounds of the model ----
MaxA == 110        \* largest int handed to BigInt(int) for the left operand
MaxB == 12         \* largest int handed to BigInt(int) for the right operand
MaxN == 11         \* largest receiver of fact() and fibo()
MaxSeed == 1        \* largest int the operation-sequence model starts from
MaxVal == 30       \* cap on the values kept by the operation-sequence model

\* ---- helpers of the properties (numeric reading of a digit vector) ----
RECURSIVE ToNat(_)
ToNat(v) == IF v = <<>> THEN 0 ELSE Head(v) + 10 * ToNat(Tail(v))

RECURSIVE Factorial(_)
Factorial(n) == IF n <= 1 THEN 1 ELSE n * Factorial(n - 1)

RECURSIVE Fib(_)
Fib(n) == IF n = 0 THEN 0 ELSE IF n = 1 THEN 1 ELSE Fib(n - 1) + Fib(n - 2)

Canonical(v) == (Len(v) > 0 => v[Len(v)] # 0) /\ (ToNat(v) = 0 => v = <<>>)

\* the decimal string of a machine integer, as character codes ('0' = 48)
CharZero == 48

RECURSIVE DecimalDigits(_)
DecimalDigits(n) == IF n < 10 THEN <<n + CharZero>>
                    ELSE Append(DecimalDigits(n \div 10), (n % 10) + CharZero)

DecimalString(n) == DecimalDigits(n)

\* ---- constructors ----
\* BigInt::BigInt()
BigIntDefault == <<>>

\* BigInt::BigInt(int n): while (n > 0) { push_back(n % 10); n /= 10; }
RECURSIVE BigIntFromInt(_)
BigIntFromInt(n) == IF n > 0 THEN <<n % 10>> \o BigIntFromInt(n \div 10) ELSE <<>>

\* BigInt::BigInt(string s): for i = length-1 downto 0, push_back(s[i] - '0')
RECURSIVE StringLoop(_, _, _)
StringLoop(s, k, vi) ==
    IF k >= 0 THEN StringLoop(s, k - 1, Append(vi, s[k + 1] - CharZero)) ELSE vi

BigIntFromString(s) == StringLoop(s, Len(s) - 1, <<>>)

\* ---- comparisons ----
\* operator==: vi == other.vi
Eq(u, w) == u = w

\* operator<=: sizes first, then digits from the most significant one
RECURSIVE LeqDigits(_, _, _)
LeqDigits(u, w, k) ==
    IF k >= 0
    THEN IF u[k + 1] # w[k + 1] THEN u[k + 1] < w[k + 1]
         ELSE LeqDigits(u, w, k - 1)
    ELSE TRUE

Leq(u, w) ==
    IF Len(u) # Len(w) THEN Len(u) < Len(w)
    ELSE LeqDigits(u, w, Len(u) - 1)

\* ---- addition ----
MaxOf(m, n) == IF m >= n THEN m ELSE n

RECURSIVE AddLoop(_, _, _, _, _)
AddLoop(u, w, res, k, carry) ==
    IF k < MaxOf(Len(u), Len(w)) \/ carry # 0
    THEN LET sum == carry + (IF k < Len(u) THEN u[k + 1] ELSE 0)
                          + (IF k < Len(w) THEN w[k + 1] ELSE 0)
         IN  AddLoop(u, w, Append(res, sum % 10), k + 1, sum \div 10)
    ELSE res

\* variant of the addition loop that stops at maxSize and drops a pending carry
RECURSIVE AddLoopNoCarry(_, _, _, _, _)
AddLoopNoCarry(u, w, res, k, carry) ==
    IF k < MaxOf(Len(u), Len(w))
    THEN LET sum == carry + (IF k < Len(u) THEN u[k + 1] ELSE 0)
                          + (IF k < Len(w) THEN w[k + 1] ELSE 0)
         IN  AddLoopNoCarry(u, w, Append(res, sum % 10), k + 1, sum \div 10)
    ELSE res

AddDropCarry(u, w) == AddLoopNoCarry(u, w, <<>>, 0, 0)

Add(u, w) == AddLoop(u, w, <<>>, 0, 0)

\* ---- trailing (most-significant) zero removal ----
RECURSIVE Strip(_)
Strip(v) == IF Len(v) > 0 /\ v[Len(v)] = 0 THEN Strip(SubSeq(v, 1, Len(v) - 1)) ELSE v

\* ---- subtraction ----
RECURSIVE SubLoop(_, _, _, _, _)
SubLoop(u, w, res, k, borrow) ==
    IF k < Len(u)
    THEN LET sub == u[k + 1] - borrow - (IF k < Len(w) THEN w[k + 1] ELSE 0)
         IN  IF sub < 0 THEN SubLoop(u, w, Append(res, sub + 10), k + 1, 1)
             ELSE SubLoop(u, w, Append(res, sub), k + 1, 0)
    ELSE res

\* variant of the subtraction without the final zero removal
SubNoStrip(u, w) == SubLoop(u, w, <<>>, 0, 0)

Sub(u, w) == Strip(SubLoop(u, w, <<>>, 0, 0))

\* ---- multiplication ----
RECURSIVE Zeros(_)
Zeros(n) == IF n > 0 THEN Append(Zeros(n - 1), 0) ELSE <<>>

\* (the arguments of the next pass are bound through singleton sets so that
\* each is evaluated once, before the pass, as the statements of the loop are)
RECURSIVE MulInner(_, _, _, _, _, _)
MulInner(res, u, w, k, j, carry) ==
    IF j < Len(w) \/ carry # 0
    THEN LET sum == res[k + j + 1] + carry
                    + u[k + 1] * (IF j < Len(w) THEN w[j + 1] ELSE 0)
         IN  CHOOSE out \in {MulInner(res2, u, w, k, j + 1, carry2) :
                                 res2 \in {[res EXCEPT ![k + j + 1] = sum % 10]},
                                 carry2 \in {sum \div 10}} : TRUE
    ELSE res

RECURSIVE MulOuter(_, _, _, _)
MulOuter(res, u, w, k) ==
    IF k < Len(u)
    THEN CHOOSE out \in {MulOuter(res2, u, w, k + 1) :
                            res2 \in {MulInner(res, u, w, k, 0, 0)}} : TRUE
    ELSE res

\* variant of the multiplication without the final zero removal
MulNoStrip(u, w) == MulOuter(Zeros(Len(u) + Len(w)), u, w, 0)

Mul(u, w) == Strip(MulOuter(Zeros(Len(u) + Len(w)), u, w, 0))

\* ---- division and modulo ----
\* the zero test at the head of operator/ and operator%
DivByZero(other) == Eq(other, BigIntFromInt(0))

ModByZero(other) == Eq(other, BigIntFromInt(0))

\* while (l <= r) { m = (l+r)/2; if (other*BigInt(m) <= current) {x = m; l = m+1} else r = m-1 }
RECURSIVE BinSearch(_, _, _, _, _)
BinSearch(other, c, u, lo, hi) ==
    IF lo <= hi
    THEN LET m == (lo + hi) \div 2
         IN  IF Leq(Mul(other, BigIntFromInt(m)), c)
             THEN BinSearch(other, c, m, m + 1, hi)
             ELSE BinSearch(other, c, u, lo, m - 1)
    ELSE u

\* variant of the search whose loop test is l < r
RECURSIVE BinSearchStrict(_, _, _, _, _)
BinSearchStrict(other, c, u, lo, hi) ==
    IF lo < hi
    THEN LET m == (lo + hi) \div 2
         IN  IF Leq(Mul(other, BigIntFromInt(m)), c)
             THEN BinSearchStrict(other, c, m, m + 1, hi)
             ELSE BinSearchStrict(other, c, u, lo, m - 1)
    ELSE u

DivFindDigitStrict(other, c) == BinSearchStrict(other, c, 0, 0, 10)

\* int x = 0, l = 0, r = 10 and the search, in operator/
DivFindDigit(other, c) == BinSearch(other, c, 0, 0, 10)

ModFindDigitStrict(other, c) == BinSearchStrict(other, c, 0, 0, 10)

\* int x = 0, l = 0, r = 10 and the search, in operator%
ModFindDigit(other, c) == BinSearch(other, c, 0, 0, 10)

\* current.vi.insert(current.vi.begin(), d)
InsertFront(v, d) == <<d>> \o v

\* one pass of the loop body of operator/ for dividend digit d
DivBody(other, acc, c, d) ==
    LET c1 == InsertFront(c, d)
        u  == DivFindDigit(other, c1)
    IN  [result  |-> InsertFront(acc, u),
         current |-> Sub(c1, Mul(other, BigIntFromInt(u))),
         x       |-> u,
         cur     |-> c1]

\* one pass of the loop body of operator% for dividend digit d
ModBody(other, c, d) ==
    LET c1 == InsertFront(c, d)
        u  == ModFindDigit(other, c1)
    IN  [current |-> Sub(c1, Mul(other, BigIntFromInt(u))),
         x       |-> u,
         cur     |-> c1]

RECURSIVE DivLoop(_, _, _, _, _)
DivLoop(vi, other, k, acc, c) ==
    IF k >= 0
    THEN LET s == DivBody(other, acc, c, vi[k + 1])
         IN  DivLoop(vi, other, k - 1, s.result, s.current)
    ELSE acc

RECURSIVE ModLoop(_, _, _, _)
ModLoop(vi, other, k, c) ==
    IF k >= 0
    THEN LET s == ModBody(other, c, vi[k + 1])
         IN  ModLoop(vi, other, k - 1, s.current)
    ELSE c

\* operator/ and operator% past the zero test
Div(u, w) == Strip(DivLoop(u, w, Len(u) - 1, <<>>, <<>>))

Mod(u, w) == ModLoop(u, w, Len(u) - 1, <<>>)

\* operator+(int n, const BigInt&)
IntPlus(n, v) == Add(BigIntFromInt(n), v)

\* ---- state ----
VARIABLES
    pc,         \* position of the caller
    op,         \* the operation the caller completed last
    na, nb,     \* the machine integers the operands were built from
    bKind,      \* how the right operand b was built
    a, b,       \* the two BigInt operands
    i, result, current,   \* locals of the running operator/ or operator%
    x, cur,     \* digit chosen in the last pass, and current as it was searched
    xsDiv, xsMod,         \* digits chosen so far by operator/ and by operator%
    q, r,       \* values returned by operator/ and operator%
    thrown,     \* the string thrown, "none" if nothing was thrown
    r1, r2,     \* results of the two calls of the + test and of the * test
    s1, eqres,  \* BigInt(string) of na's decimal string, and a == s1
    ret,        \* value returned by ++, fact() or fibo()
    fi, fres,   \* locals i and result of fact()
    fn, fa, fb, \* arguments of the current fiboHelper call
    underflow   \* a subtraction was called with left < right

inVars == <<na, nb, bKind>>
divVars == <<i, result, current, x, cur, xsDiv, xsMod, q, r, thrown>>
testVars == <<r1, r2, s1, eqres>>
derVars == <<fi, fres, fn, fa, fb, underflow>>
vars == <<pc, op, a, b, ret, inVars, divVars, testVars, derVars>>

One == BigIntFromInt(1)

\* the right operand as the caller builds it
CtorB(kind, n, va) ==
    CASE kind = "int"     -> BigIntFromInt(n)
      [] kind = "str"     -> BigIntFromString(DecimalString(n))
      [] kind = "default" -> BigIntDefault
      [] kind = "sub"     -> Sub(va, va)
      [] kind = "mul"     -> Mul(va, BigIntFromInt(0))
      [] kind = "div"     -> Div(va, BigIntFromInt(MaxA + 1))
      [] kind = "mod"     -> Mod(va, One)

ZeroKinds == {"default", "sub", "mul", "div", "mod"}

InitLocals ==
    /\ op = "none"
    /\ i = 0 /\ result = <<>> /\ current = <<>> /\ x = 0 /\ cur = <<>>
    /\ xsDiv = <<>> /\ xsMod = <<>> /\ q = <<>> /\ r = <<>>
    /\ thrown = "none"
    /\ r1 = <<>> /\ r2 = <<>> /\ s1 = <<>> /\ eqres = FALSE
    /\ ret = <<>>
    /\ fi = <<>> /\ fres = <<>> /\ fn = <<>> /\ fa = <<>> /\ fb = <<>>
    /\ underflow = FALSE

\* ---- the arithmetic calls of a caller holding two operands ----
Init ==
    /\ pc = "start"
    /\ na \in 0..MaxA
    /\ nb \in 0..MaxB
    /\ bKind \in {"int", "str"} \cup (IF nb = 0 THEN ZeroKinds ELSE {})
    /\ a = BigIntFromInt(na)
    /\ b = CtorB(bKind, nb, a)
    /\ InitLocals

DivCall ==
    /\ pc = "start"
    /\ IF DivByZero(b)
       THEN /\ thrown' = "Division by zero"
            /\ pc' = "done"
            /\ UNCHANGED <<i, result, current>>
       ELSE /\ pc' = "div"
            /\ i' = Len(a) - 1
            /\ result' = <<>>
            /\ current' = <<>>
            /\ UNCHANGED thrown
    /\ op' = "/"
    /\ UNCHANGED <<a, b, ret, inVars, x, cur, xsDiv, xsMod, q, r, testVars, derVars>>

DivIterate ==
    /\ pc = "div"
    /\ i >= 0
    /\ LET s == DivBody(b, result, current, a[i + 1])
       IN  /\ result' = s.result
           /\ current' = s.current
           /\ x' = s.x
           /\ cur' = s.cur
           /\ xsDiv' = Append(xsDiv, s.x)
    /\ i' = i - 1
    /\ UNCHANGED <<pc, op, a, b, ret, inVars, xsMod, q, r, thrown, testVars, derVars>>

DivReturn ==
    /\ pc = "div"
    /\ i < 0
    /\ q' = Strip(result)
    /\ pc' = "divdone"
    /\ UNCHANGED <<op, a, b, ret, inVars, i, result, current, x, cur, xsDiv, xsMod, r,
                   thrown, testVars, derVars>>

ModCall ==
    /\ pc \in {"start", "divdone"}
    /\ IF ModByZero(b)
       THEN /\ thrown' = "Modulo by zero"
            /\ pc' = "done"
            /\ UNCHANGED <<i, current>>
       ELSE /\ pc' = "mod"
            /\ i' = Len(a) - 1
            /\ current' = <<>>
            /\ UNCHANGED thrown
    /\ op' = IF op = "/" THEN "/%" ELSE "%"
    /\ UNCHANGED <<a, b, ret, inVars, result, x, cur, xsDiv, xsMod, q, r, testVars, derVars>>

ModIterate ==
    /\ pc = "mod"
    /\ i >= 0
    /\ LET s == ModBody(b, current, a[i + 1])
       IN  /\ current' = s.current
           /\ x' = s.x
           /\ cur' = s.cur
           /\ xsMod' = Append(xsMod, s.x)
    /\ i' = i - 1
    /\ UNCHANGED <<pc, op, a, b, ret, inVars, result, xsDiv, q, r, thrown, testVars, derVars>>

ModReturn ==
    /\ pc = "mod"
    /\ i < 0
    /\ r' = current
    /\ pc' = "done"
    /\ UNCHANGED <<op, a, b, ret, inVars, i, result, current, x, cur, xsDiv, xsMod, q,
                   thrown, testVars, derVars>>

\* na + b, through operator+(int, const BigInt&)
IntPlusCall ==
    /\ pc = "start"
    /\ r1' = IntPlus(na, b)
    /\ pc' = "plus"
    /\ UNCHANGED <<op, a, b, ret, inVars, divVars, r2, s1, eqres, derVars>>

\* b + na, through BigInt::operator+ and the converting constructor
PlusIntCall ==
    /\ pc = "plus"
    /\ r2' = Add(b, BigIntFromInt(na))
    /\ pc' = "done"
    /\ op' = "+"
    /\ UNCHANGED <<a, b, ret, inVars, divVars, r1, s1, eqres, derVars>>

TimesCall ==
    /\ pc = "start"
    /\ r1' = Mul(a, b)
    /\ pc' = "times"
    /\ UNCHANGED <<op, a, b, ret, inVars, divVars, r2, s1, eqres, derVars>>

TimesSwappedCall ==
    /\ pc = "times"
    /\ r2' = Mul(b, a)
    /\ pc' = "done"
    /\ op' = "*"
    /\ UNCHANGED <<a, b, ret, inVars, divVars, r1, s1, eqres, derVars>>

StringCtor ==
    /\ pc = "start"
    /\ s1' = BigIntFromString(DecimalString(na))
    /\ pc' = "ctor"
    /\ UNCHANGED <<op, a, b, ret, inVars, divVars, r1, r2, eqres, derVars>>

EqCall ==
    /\ pc = "ctor"
    /\ eqres' = Eq(a, s1)
    /\ pc' = "done"
    /\ op' = "=="
    /\ UNCHANGED <<a, b, ret, inVars, divVars, r1, r2, s1, derVars>>

\* variant of operator++(int) that returns the updated receiver
PostIncReturnsNew ==
    /\ pc = "start"
    /\ b' = Add(b, BigIntFromInt(1))
    /\ ret' = b'
    /\ pc' = "done"
    /\ op' = "x++"
    /\ UNCHANGED <<a, inVars, divVars, testVars, derVars>>

\* operator++(int) on b
PostInc ==
    /\ pc = "start"
    /\ ret' = b
    /\ b' = Add(b, BigIntFromInt(1))
    /\ pc' = "done"
    /\ op' = "x++"
    /\ UNCHANGED <<a, inVars, divVars, testVars, derVars>>

\* operator++() on b
PreInc ==
    /\ pc = "start"
    /\ b' = Add(b, BigIntFromInt(1))
    /\ ret' = b'
    /\ pc' = "done"
    /\ op' = "++x"
    /\ UNCHANGED <<a, inVars, divVars, testVars, derVars>>

Next ==
    \/ DivCall \/ DivIterate \/ DivReturn
    \/ ModCall \/ ModIterate \/ ModReturn
    \/ IntPlusCall \/ PlusIntCall
    \/ TimesCall \/ TimesSwappedCall
    \/ StringCtor \/ EqCall
    \/ PostInc \/ PreInc

Spec == Init /\ [][Next]_vars

\* ---- sequences of operations over two BigInt variables ----
InitSeq ==
    /\ pc = "seq"
    /\ na \in 0..MaxSeed
    /\ nb \in 0..MaxSeed
    /\ bKind = "int"
    /\ a = BigIntFromInt(na)
    /\ b = BigIntFromInt(nb)
    /\ InitLocals

\* assign the result v of an operator to the variable named t
SeqStore(t, v) ==
    /\ ToNat(v) <= MaxVal
    /\ IF t = "a" THEN a' = v /\ b' = b ELSE b' = v /\ a' = a

seqRest == <<pc, ret, inVars, divVars, testVars, derVars>>

SeqAdd ==
    /\ pc = "seq"
    /\ \E u \in {a, b}, w \in {a, b}, t \in {"a", "b"} : SeqStore(t, Add(u, w))
    /\ op' = "+"
    /\ UNCHANGED seqRest

SeqSub ==
    /\ pc = "seq"
    /\ \E u \in {a, b}, w \in {a, b}, t \in {"a", "b"} :
           /\ ToNat(u) >= ToNat(w)
           /\ SeqStore(t, Sub(u, w))
    /\ op' = "-"
    /\ UNCHANGED seqRest

SeqMul ==
    /\ pc = "seq"
    /\ \E u \in {a, b}, w \in {a, b}, t \in {"a", "b"} : SeqStore(t, Mul(u, w))
    /\ op' = "*"
    /\ UNCHANGED seqRest

SeqDiv ==
    /\ pc = "seq"
    /\ \E u \in {a, b}, w \in {a, b}, t \in {"a", "b"} :
           /\ ToNat(w) # 0
           /\ ~DivByZero(w)
           /\ SeqStore(t, Div(u, w))
    /\ op' = "/"
    /\ UNCHANGED seqRest

SeqMod ==
    /\ pc = "seq"
    /\ \E u \in {a, b}, w \in {a, b}, t \in {"a", "b"} :
           /\ ToNat(w) # 0
           /\ ~ModByZero(w)
           /\ SeqStore(t, Mod(u, w))
    /\ op' = "%"
    /\ UNCHANGED seqRest

\* t++, the returned copy either dropped or assigned to the other variable
SeqPostInc ==
    /\ pc = "seq"
    /\ \E t \in {"a", "b"}, keep \in BOOLEAN :
           LET old == IF t = "a" THEN a ELSE b
               new == Add(old, BigIntFromInt(1))
           IN  /\ ToNat(new) <= MaxVal
               /\ IF t = "a"
                  THEN a' = new /\ b' = (IF keep THEN old ELSE b)
                  ELSE b' = new /\ a' = (IF keep THEN old ELSE a)
    /\ op' = "x++"
    /\ UNCHANGED seqRest

\* ++t, the returned copy either dropped or assigned to the other variable
SeqPreInc ==
    /\ pc = "seq"
    /\ \E t \in {"a", "b"}, keep \in BOOLEAN :
           LET old == IF t = "a" THEN a ELSE b
               new == Add(old, BigIntFromInt(1))
           IN  /\ ToNat(new) <= MaxVal
               /\ IF t = "a"
                  THEN a' = new /\ b' = (IF keep THEN new ELSE b)
                  ELSE b' = new /\ a' = (IF keep THEN new ELSE a)
    /\ op' = "++x"
    /\ UNCHANGED seqRest

NextSeq ==
    \/ SeqAdd \/ SeqSub \/ SeqMul \/ SeqDiv \/ SeqMod \/ SeqPostInc \/ SeqPreInc

SpecSeq == InitSeq /\ [][NextSeq]_vars

\* ---- fact() and fibo() ----
InitDerived ==
    /\ pc = "start"
    /\ na \in 0..MaxN
    /\ nb = 0
    /\ bKind = "int"
    /\ a = BigIntFromInt(na)
    /\ b = BigIntFromInt(nb)
    /\ InitLocals

derRest == <<op, a, b, inVars, divVars, testVars>>

\* BigInt result = 1; BigInt i = 2
FactCall ==
    /\ pc = "start"
    /\ fres' = BigIntFromInt(1)
    /\ fi' = BigIntFromInt(2)
    /\ pc' = "fact"
    /\ UNCHANGED <<ret, fn, fa, fb, underflow, derRest>>

FactLoopTestStrict(vi, this) == Leq(vi, this) /\ ~Eq(vi, this)

\* the loop test i <= *this
FactLoopTest(vi, this) == Leq(vi, this)

FactIterate ==
    /\ pc = "fact"
    /\ FactLoopTest(fi, a)
    /\ fres' = Mul(fres, fi)
    /\ fi' = Add(fi, BigIntFromInt(1))
    /\ UNCHANGED <<pc, ret, fn, fa, fb, underflow, derRest>>

FactReturn ==
    /\ pc = "fact"
    /\ ~FactLoopTest(fi, a)
    /\ ret' = fres
    /\ pc' = "fact_done"
    /\ UNCHANGED <<fi, fres, fn, fa, fb, underflow, derRest>>

\* fiboHelper(*this, 0, 1)
FiboCall ==
    /\ pc = "start"
    /\ fn' = a
    /\ fa' = BigIntFromInt(0)
    /\ fb' = BigIntFromInt(1)
    /\ pc' = "fibo"
    /\ UNCHANGED <<ret, fi, fres, underflow, derRest>>

\* variant of the first base case that returns b
FiboReturnAWrong ==
    /\ pc = "fibo"
    /\ Eq(fn, BigIntFromInt(0))
    /\ ret' = fb
    /\ pc' = "fibo_done"
    /\ UNCHANGED <<fi, fres, fn, fa, fb, underflow, derRest>>

\* if (n == 0) return a
FiboReturnA ==
    /\ pc = "fibo"
    /\ Eq(fn, BigIntFromInt(0))
    /\ ret' = fa
    /\ pc' = "fibo_done"
    /\ UNCHANGED <<fi, fres, fn, fa, fb, underflow, derRest>>

\* if (n == 1) return b
FiboReturnB ==
    /\ pc = "fibo"
    /\ ~Eq(fn, BigIntFromInt(0))
    /\ Eq(fn, BigIntFromInt(1))
    /\ ret' = fb
    /\ pc' = "fibo_done"
    /\ UNCHANGED <<fi, fres, fn, fa, fb, underflow, derRest>>

\* return fiboHelper(n - 1, b, a + b); the value comes back through every frame
FiboRecurse ==
    /\ pc = "fibo"
    /\ ~Eq(fn, BigIntFromInt(0))
    /\ ~Eq(fn, BigIntFromInt(1))
    /\ fn' = Sub(fn, BigIntFromInt(1))
    /\ fa' = fb
    /\ fb' = Add(fa, fb)
    /\ underflow' = (underflow \/ ToNat(fn) < ToNat(BigIntFromInt(1)))
    /\ UNCHANGED <<pc, ret, fi, fres, derRest>>

NextDerived ==
    \/ FactCall \/ FactIterate \/ FactReturn
    \/ FiboCall \/ FiboReturnA \/ FiboReturnB \/ FiboRecurse

\* the calls are synchronous: a started call keeps running
SpecDerived == InitDerived /\ [][NextDerived]_vars /\ WF_vars(NextDerived)

\* ---- properties of the arithmetic calls ----

\* C1: for a >= 0 and b # 0 built with BigInt(int), q = a / b and r = a % b
\* satisfy q * b + r == a, r <= b holds and r == b does not.
C1_DivModIdentity ==
    (pc = "done" /\ op = "/%" /\ bKind = "int" /\ nb # 0) =>
        /\ thrown = "none"
        /\ Eq(Add(Mul(q, BigIntFromInt(nb)), r), BigIntFromInt(na))
        /\ Leq(r, BigIntFromInt(nb))
        /\ ~Eq(r, BigIntFromInt(nb))

C1_Witness ==
    /\ pc = "done" /\ op = "/%" /\ bKind = "int"
    /\ na = 107 /\ nb = 12 /\ q = <<8>> /\ r = <<1, 1>>

\* C2: operator/ and operator% throw, and return nothing, whenever the
\* numeric value of the divisor is zero, however that zero was built.
C2_ZeroDivisorThrows ==
    (op \in {"/", "%", "/%"} /\ ToNat(b) = 0) =>
        /\ pc = "done"
        /\ thrown = (IF op = "/" THEN "Division by zero" ELSE "Modulo by zero")

\* C4: BigInt(a) + BigInt(b) == BigInt(a + b), and int + BigInt gives the same
\* value as BigInt + int.
C4_AddMatchesInt ==
    (pc = "done" /\ op = "+") =>
        /\ Eq(r1, r2)
        /\ bKind = "int" => (Eq(r1, BigIntFromInt(na + nb)) /\ Eq(r2, BigIntFromInt(na + nb)))

C4_Witness ==
    /\ pc = "done" /\ op = "+" /\ bKind = "int"
    /\ na = 95 /\ nb = 7 /\ r1 = <<2, 0, 1>> /\ r2 = <<2, 0, 1>>

\* C5: BigInt(a) * BigInt(b) == BigInt(a * b), also when an operand is zero,
\* and x * y == y * x.
C5_MulMatchesInt ==
    (pc = "done" /\ op = "*") =>
        /\ Eq(r1, r2)
        /\ Eq(r1, BigIntFromInt(na * nb))

C5_Witness ==
    /\ pc = "done" /\ op = "*" /\ bKind = "int"
    /\ na = 105 /\ nb = 0 /\ r1 = <<>> /\ r2 = <<>>

\* C6: BigInt(n) == BigInt(s) is true for the decimal string s of every
\* n >= 0, n = 0 included.
C6_CtorsAgree ==
    (pc = "done" /\ op = "==") => eqres = TRUE

\* C9: x++ returns the old x and leaves x + 1 in the receiver; ++x returns
\* x + 1 and leaves x + 1 in the receiver.
C9_Increment ==
    /\ (pc = "done" /\ op = "x++") =>
           (Eq(ret, CtorB(bKind, nb, a)) /\ Eq(b, BigIntFromInt(nb + 1)))
    /\ (pc = "done" /\ op = "++x") =>
           (Eq(ret, BigIntFromInt(nb + 1)) /\ Eq(b, BigIntFromInt(nb + 1)))

C9_Witness ==
    /\ pc = "done" /\ op = "x++" /\ nb = 9 /\ ret = <<9>> /\ b = <<0, 1>>

\* C10: with a non-zero divisor, every pass of the long-division loop picks
\* x in 0..9, the largest digit with divisor * x <= current, leaves a running
\* remainder below the divisor, and operator% picks the digits operator/ picked.
C10_DigitSearch ==
    (op \in {"/", "%", "/%"} /\ ToNat(b) # 0 /\ Len(xsDiv) + Len(xsMod) > 0) =>
        /\ x \in 0..9
        /\ x * ToNat(b) <= ToNat(cur)
        /\ \A d \in 0..9 : d * ToNat(b) <= ToNat(cur) => d <= x
        /\ ToNat(current) < ToNat(b)
        /\ \A k \in 1..Len(xsMod) : k <= Len(xsDiv) => xsMod[k] = xsDiv[k]

C10_Witness ==
    /\ pc = "done" /\ op = "/%" /\ na = 109 /\ nb = 12
    /\ xsDiv = <<0, 0, 9>> /\ xsMod = <<0, 0, 9>> /\ x = 9 /\ current = <<1>>

\* ---- properties of operation sequences ----

\* C3: starting from BigInt(int n >= 0), after any sequence of +, - (left >=
\* right), *, /, % (non-zero divisor) and ++, every value has a non-zero
\* most-significant digit and every zero value is the empty digit sequence.
C3_Canonical ==
    pc = "seq" => (Canonical(a) /\ Canonical(b))

C3_Witness ==
    /\ pc = "seq" /\ op = "-" /\ a = <<>> /\ b = <<0, 1>>

\* ---- properties of fact() and fibo() ----

\* C7: BigInt(n).fact() terminates and returns BigInt(n!); 0 and 1 give BigInt(1).
C7_Fact ==
    /\ [](pc = "fact_done" => Eq(ret, BigIntFromInt(Factorial(na))))
    /\ [](pc = "fact_done" /\ na \in {0, 1} => Eq(ret, BigIntFromInt(1)))
    /\ (pc = "fact") ~> (pc = "fact_done")

C7_Witness ==
    /\ pc = "fact_done" /\ na = 10 /\ ret = <<0, 0, 8, 8, 2, 6, 3>>

\* C8: BigInt(n).fibo() reaches a base case and returns the n-th Fibonacci
\* number, and n - 1 is never computed with n below 1.
C8_Fibo ==
    /\ [](~underflow)
    /\ [](pc = "fibo_done" => Eq(ret, BigIntFromInt(Fib(na))))
    /\ (pc = "fibo") ~> (pc = "fibo_done")

C8_Witness ==
    /\ pc = "fibo_done" /\ na = 10 /\ ret = <<5, 5>> /\ fn = <<1>>

====
